---- MODULE Spec2Model ----
(***************************************************************************)
(* eslint-plugin-dom-security: the no-unsafe-redirect rule (resolver,      *)
(* classifier, sink visitor) and the runtime validator ensureTrustedUrl /  *)
(* isTrustedUrl.                                                           *)
(*                                                                         *)
(* Three specifications share the module:                                  *)
(*   Spec        one analysis pass of the rule over a stream of nodes      *)
(*   ClassifierSpec  isValueSafe applied to one value expression           *)
(*   RuntimeSpec calls of ensureTrustedUrl / isTrustedUrl in an ambient    *)
(*               browsing context                                          *)
(* JavaScript strings are TLA+ strings; characters are strings of length 1.*)
(***************************************************************************)
EXTENDS Naturals, Sequences, FiniteSets, TLC

VARIABLES
    window,            \* runtime: the ambient global `window` binding
    url,               \* runtime: first argument of the call in progress
    options,           \* runtime: second argument of the call in progress
    result,            \* runtime: outcome of ensureTrustedUrl(url, options)
    trusted,           \* runtime: outcome of isTrustedUrl(url, options)
    checker,           \* rule: the TypeChecker obtained by create(), or "null"
    trackedVariables,  \* rule: Map<string, VariableInfo> of one pass
    withStack,         \* rule: stack of resolved `with` header kinds
    node,              \* rule: the node handed to the running visitor callback
    reports,           \* rule: context.report calls made by that callback
    verdict,           \* rule: what isValueSafe answered to that callback
    enclosingWiths,    \* traversal: with statements around the current position
    passes,            \* host: the analysis passes, one per call of create()
    closures,          \* host: the map and the stack each create() call made
    running            \* host: the pass whose callback runs, 0 for none

vars == <<window, url, options, result, trusted,
          checker, trackedVariables, withStack, node, reports, verdict,
          enclosingWiths, passes, closures, running>>

runtimeVars == <<window, url, options, result, trusted>>
hostVars == <<passes, closures, running>>
ruleVars == <<checker, trackedVariables, withStack, node, reports, verdict,
              enclosingWiths, passes, closures, running>>

-----------------------------------------------------------------------------
(* Strings                                                                 *)

Ch(s, i) == SubSeq(s, i, i)

Upper == "ABCDEFGHIJKLMNOPQRSTUVWXYZ"
Lower == "abcdefghijklmnopqrstuvwxyz"
Digits == "0123456789"

CharsOf(s) == {Ch(s, i) : i \in 1..Len(s)}

UpperSet == CharsOf(Upper)
LowerSet == CharsOf(Lower)
DigitSet == CharsOf(Digits)

\* String.prototype.toLowerCase on one character
LowerOf == [c \in UpperSet |-> Ch(Lower, CHOOSE i \in 1..26 : Ch(Upper, i) = c)]
ToLowerCh(c) == IF c \in UpperSet THEN LowerOf[c] ELSE c

RECURSIVE MapChars(_, _)
\* s with every character c replaced by the string f[c]
MapChars(s, f) ==
    IF s = "" THEN "" ELSE f[Head(s)] \o MapChars(Tail(s), f)

\* url.toLowerCase()
ToLowerCase(s) == MapChars(s, [c \in CharsOf(s) |-> ToLowerCh(c)])

\* s.replace(/[^a-z:]/g, "")
StripNonLowerColon(s) ==
    MapChars(s, [c \in CharsOf(s) |-> IF c \in LowerSet \cup {":"} THEN c ELSE ""])

\* s.startsWith(p)
StartsWith(s, p) == Len(s) >= Len(p) /\ SubSeq(s, 1, Len(p)) = p

\* Array.prototype.includes on an array of strings
Includes(arr, x) == \E i \in 1..Len(arr) : arr[i] = x


-----------------------------------------------------------------------------
(* JavaScript values handed to the runtime validator                       *)

\* every value carries all payload fields, so that any two compare
JsValue(t, s, n, a, b) == [t |-> t, s |-> s, n |-> n, a |-> a, b |-> b]
Undefined == JsValue("undefined", "", 0, <<>>, FALSE)
Null == JsValue("null", "", 0, <<>>, FALSE)
Str(s) == JsValue("string", s, 0, <<>>, FALSE)
Num(n) == JsValue("number", "", n, <<>>, FALSE)
Arr(a) == JsValue("array", "", 0, a, FALSE)
Bool(b) == JsValue("boolean", "", 0, <<>>, b)

\* typeof x === "string"
IsString(x) == x.t = "string"

\* ToBoolean(x): undefined, null, 0 and "" are falsy
Truthy(x) ==
    CASE x.t = "undefined" -> FALSE
      [] x.t = "null" -> FALSE
      [] x.t = "number" -> x.n # 0
      [] x.t = "string" -> x.s # ""
      [] x.t = "boolean" -> x.b
      [] OTHER -> TRUE

-----------------------------------------------------------------------------
(* new URL(url, base): the part of the WHATWG basic URL parser that        *)
(* decides failure, protocol and origin.  file: and blob: URLs, IPv6       *)
(* literals, percent-decoding and IDNA are outside the modelled inputs.    *)

C0ControlOrSpace == {" ", "\t", "\n", "\r"}
TabOrNewline == {"\t", "\n", "\r"}
AlphaSet == UpperSet \cup LowerSet
SchemeCharSet == AlphaSet \cup DigitSet \cup {"+", "-", "."}
SpecialSchemes == {"http", "https", "ftp", "ws", "wss"}
DefaultPort == [s \in SpecialSchemes |->
                  CASE s = "http" -> "80" [] s = "https" -> "443"
                    [] s = "ftp" -> "21" [] s = "ws" -> "80" [] OTHER -> "443"]
ForbiddenHost == {" ", "<", ">", "^", "|", "[", "]"}

ParseFailure == [ok |-> FALSE, protocol |-> "", origin |-> "", special |-> FALSE]

RECURSIVE TrimStart(_)
TrimStart(s) ==
    IF s # "" /\ Head(s) \in C0ControlOrSpace THEN TrimStart(Tail(s)) ELSE s

RECURSIVE TrimEnd(_)
TrimEnd(s) ==
    IF s # "" /\ Ch(s, Len(s)) \in C0ControlOrSpace
    THEN TrimEnd(SubSeq(s, 1, Len(s) - 1))
    ELSE s

RemoveTabNewline(s) ==
    MapChars(s, [c \in CharsOf(s) |-> IF c \in TabOrNewline THEN "" ELSE c])

\* position of the ":" that ends a scheme at the start of s, 0 when s has none
SchemeColon(s) ==
    IF s = "" \/ Head(s) \notin AlphaSet THEN 0
    ELSE LET cands == {i \in 2..Len(s) :
                         /\ Ch(s, i) = ":"
                         /\ \A j \in 1..(i - 1) : Ch(s, j) \in SchemeCharSet}
         IN IF cands = {} THEN 0 ELSE CHOOSE i \in cands : \A j \in cands : i <= j

SlashesOf(special) == IF special THEN {"/", "\\"} ELSE {"/"}

RECURSIVE SkipSlashes(_)
SkipSlashes(s) ==
    IF s # "" /\ Head(s) \in {"/", "\\"} THEN SkipSlashes(Tail(s)) ELSE s

RECURSIVE TakeUntil(_, _)
TakeUntil(s, stop) ==
    IF s = "" \/ Head(s) \in stop THEN "" ELSE Head(s) \o TakeUntil(Tail(s), stop)

IndexesOf(s, c) == {i \in 1..Len(s) : Ch(s, i) = c}
LastIndexOf(s, c) ==
    IF IndexesOf(s, c) = {} THEN 0
    ELSE CHOOSE i \in IndexesOf(s, c) : \A j \in IndexesOf(s, c) : j <= i
FirstIndexOf(s, c) ==
    IF IndexesOf(s, c) = {} THEN 0
    ELSE CHOOSE i \in IndexesOf(s, c) : \A j \in IndexesOf(s, c) : i <= j

\* authority state .. port state: userinfo, host and port of scheme://authority
ParseAuthority(scheme, special, s) ==
    LET auth == TakeUntil(s, SlashesOf(special) \cup {"?", "#"})
        at == LastIndexOf(auth, "@")
        hostport == SubSeq(auth, at + 1, Len(auth))
        colon == FirstIndexOf(hostport, ":")
        host == IF colon = 0 THEN hostport ELSE SubSeq(hostport, 1, colon - 1)
        port == IF colon = 0 THEN "" ELSE SubSeq(hostport, colon + 1, Len(hostport))
    IN IF \/ (special /\ host = "")
          \/ CharsOf(host) \cap ForbiddenHost # {}
          \/ ~(CharsOf(port) \subseteq DigitSet)
       THEN ParseFailure
       ELSE [ok |-> TRUE,
             protocol |-> scheme \o ":",
             special |-> special,
             origin |-> IF special
                        THEN scheme \o "://" \o ToLowerCase(host) \o
                             (IF port = "" \/ port = DefaultPort[scheme]
                              THEN "" ELSE ":" \o port)
                        ELSE "null"]

\* relative state / relative slash state against a parsed base
ParseRelative(s, base) ==
    IF /\ Len(s) >= 2
       /\ Ch(s, 1) \in SlashesOf(base.special)
       /\ Ch(s, 2) \in SlashesOf(base.special)
    THEN ParseAuthority(SubSeq(base.protocol, 1, Len(base.protocol) - 1),
                        base.special,
                        IF base.special THEN SkipSlashes(s) ELSE SubSeq(s, 3, Len(s)))
    ELSE [ok |-> TRUE, protocol |-> base.protocol,
          special |-> base.special, origin |-> base.origin]

\* the basic URL parser; base is <<>> (no base) or <<parsed base URL>>
BasicParse(input, base) ==
    LET s == RemoveTabNewline(TrimEnd(TrimStart(input)))
        k == SchemeColon(s)
    IN IF k > 0
       THEN LET scheme == ToLowerCase(SubSeq(s, 1, k - 1))
                rest == SubSeq(s, k + 1, Len(s))
            IN IF scheme \in SpecialSchemes
               THEN IF base # <<>> /\ base[1].protocol = scheme \o ":"
                    THEN ParseRelative(rest, base[1])
                    ELSE ParseAuthority(scheme, TRUE, SkipSlashes(rest))
               ELSE IF StartsWith(rest, "//")
                    THEN ParseAuthority(scheme, FALSE, SubSeq(rest, 3, Len(rest)))
                    ELSE [ok |-> TRUE, protocol |-> scheme \o ":",
                          special |-> FALSE, origin |-> "null"]
       ELSE IF base = <<>> THEN ParseFailure ELSE ParseRelative(s, base[1])

\* new URL(u, b) for a string u and b a string or undefined
NewURL(u, b) ==
    IF b.t = "undefined"
    THEN BasicParse(u, <<>>)
    ELSE LET parsedBase == BasicParse(b.s, <<>>)
         IN IF parsedBase.ok THEN BasicParse(u, <<parsedBase>>) ELSE ParseFailure

-----------------------------------------------------------------------------
(* src/runtime/ensure-trusted-url.ts                                       *)

Throw(error, message) ==
    [kind |-> "throw", error |-> error, message |-> message, value |-> Undefined]
Return(v) ==
    [kind |-> "return", error |-> "", message |-> "", value |-> v]
NoOutcome == [kind |-> "none", error |-> "", message |-> "", value |-> Undefined]

\* the conditional expression that reads window.location.origin
CurrentOrigin(win) ==
    IF /\ win.binding = "object"
       /\ win.location = "object"
       /\ win.origin.t = "string"
    THEN win.origin
    ELSE Undefined

\* options' fields after destructuring with defaults
OptAllowCrossOrigin(o) ==
    IF o.allowCrossOrigin.t = "undefined" THEN FALSE ELSE o.allowCrossOrigin.b
OptAllowedProtocols(o) ==
    IF o.allowedProtocols.t = "undefined"
    THEN <<"http:", "https:">>
    ELSE o.allowedProtocols.a
OptAllowedOrigins(o, currentOrigin) ==
    IF o.allowedOrigins.t = "undefined"
    THEN (IF Truthy(currentOrigin) THEN <<currentOrigin.s>> ELSE <<>>)
    ELSE o.allowedOrigins.a

\* the character class applied to the input as typed
NormalizedUrl_NoLowerCase(u) == StripNonLowerColon(u)

\* url.toLowerCase().replace(/[^a-z:]/g, "")
NormalizedUrl(u) == StripNonLowerColon(ToLowerCase(u))

\* the string as the URL parser reads it, in place of the argument
Branded_Normalised(u) == Str(RemoveTabNewline(TrimEnd(TrimStart(u.s))))

\* return url as TrustedUrl<T>
Branded(u) == u

EnsureTrustedUrl(u, o, win) ==
    IF win.binding = "undeclared"
    THEN Throw("ReferenceError", "window is not defined")
    ELSE
    LET currentOrigin == CurrentOrigin(win)
        allowCrossOrigin == OptAllowCrossOrigin(o)
        allowedProtocols == OptAllowedProtocols(o)
        allowedOrigins == OptAllowedOrigins(o, currentOrigin)
    IN IF ~Truthy(u) \/ ~IsString(u)
       THEN Throw("TypeError", "URL must be a non-empty string")
       ELSE
       LET parsedUrl == NewURL(u.s, currentOrigin)
       IN IF ~parsedUrl.ok
          THEN Throw("TypeError", "Invalid URL")
          ELSE IF ~Includes(allowedProtocols, parsedUrl.protocol)
          THEN Throw("TypeError", "Unsafe URL protocol")
          ELSE IF ~Includes(allowedOrigins, parsedUrl.origin) /\ ~allowCrossOrigin
          THEN Throw("TypeError", "Cross-origin URL not allowed")
          ELSE IF StartsWith(NormalizedUrl(u.s), "javascript:")
          THEN Throw("TypeError", "Potentially dangerous URL protocol detected")
          ELSE Return(Branded(u))

\* a catch clause that handles TypeError only and rethrows the rest
IsTrustedUrl_CatchesTypeErrorOnly(u, o, win) ==
    LET r == EnsureTrustedUrl(u, o, win)
    IN IF r.kind = "throw"
       THEN (IF r.error = "TypeError" THEN Return(Bool(FALSE)) ELSE r)
       ELSE Return(Bool(TRUE))

\* try { ensureTrustedUrl(url, options); return true } catch { return false }
IsTrustedUrl(u, o, win) ==
    LET r == EnsureTrustedUrl(u, o, win)
    IN IF r.kind = "throw" THEN Return(Bool(FALSE)) ELSE Return(Bool(TRUE))

-----------------------------------------------------------------------------
(* Inputs of the runtime specification                                     *)

\* longest run of characters put in front of a sample URL
MaxPrefix == 1

PrefixChars == {" ", "/"}

RECURSIVE Prefixes(_)
Prefixes(n) ==
    IF n = 0 THEN {""}
    ELSE Prefixes(n - 1) \cup {c \o p : c \in PrefixChars, p \in Prefixes(n - 1)}

SampleUrls ==
    { "/dashboard",
      "https://example.com/page", "http://example.com/page",
      "https://evil.com/page", "http://example.com@other.com",
      "http://other.com\\ @example.com", "https:evil.com", "https://",
      "ftp://files.com/data",
      "javascript:alert(1)", "JavaScript:alert(1)", "java\tscript:alert(1)",
      "Xjavascript:alert(1)" }

UrlStrings == {p \o u : p \in Prefixes(MaxPrefix), u \in SampleUrls}

UrlValues ==
    {Str(s) : s \in UrlStrings}
      \cup {Str(""), Undefined, Null, Num(123), Num(0), Arr(<<"a", "b">>)}

OptionsRecords ==
    [allowCrossOrigin : {Undefined, Bool(TRUE), Bool(FALSE)},
     allowedProtocols : {Undefined, Arr(<<"https:">>),
                         Arr(<<"http:", "https:", "ftp:",
                               "javascript:", "xjavascript:">>)},
     allowedOrigins : {Undefined, Arr(<<>>), Arr(<<"https://evil.com">>),
                       Arr(<<"http://example.com">>),
                       Arr(<<"https://example.com", "null">>)}]

\* options = {}
DefaultOptions ==
    [allowCrossOrigin |-> Undefined, allowedProtocols |-> Undefined,
     allowedOrigins |-> Undefined]

\* the global `window` binding: absent, undefined, or an object
WindowUndeclared == [binding |-> "undeclared", location |-> "absent", origin |-> Undefined]
WindowUndefined == [binding |-> "undefined", location |-> "absent", origin |-> Undefined]
WindowNoLocation == [binding |-> "object", location |-> "absent", origin |-> Undefined]
WindowNoOrigin == [binding |-> "object", location |-> "object", origin |-> Undefined]
Browser(origin) == [binding |-> "object", location |-> "object", origin |-> Str(origin)]

Windows ==
    {WindowUndeclared, WindowUndefined, WindowNoLocation, WindowNoOrigin,
     Browser("https://example.com"), Browser("null")}

-----------------------------------------------------------------------------
(* Rule state before any callback has run (create(), lines 51-60)          *)

NoNode == [type |-> "none"]
NoTracked == [n \in {} |-> [isLocation |-> FALSE, isNavigation |-> FALSE,
                            isWindow |-> FALSE]]

RuleInit ==
    /\ trackedVariables = NoTracked
    /\ withStack = <<>>
    /\ node = NoNode
    /\ reports = <<>>
    /\ verdict = "none"
    /\ enclosingWiths = 0
    /\ passes = <<>>
    /\ closures = <<>>
    /\ running = 0

-----------------------------------------------------------------------------
(* RuntimeSpec: calls of the validator                                     *)

NoArguments == JsValue("none", "", 0, <<>>, FALSE)

RuntimeInit ==
    /\ window = Browser("https://example.com")
    /\ url = NoArguments
    /\ options = DefaultOptions
    /\ result = NoOutcome
    /\ trusted = NoOutcome
    /\ checker = "null"
    /\ RuleInit

\* the embedding page or test harness replaces the global (globalThis.window = w)
SetWindow(w) ==
    /\ url = NoArguments
    /\ window' = w
    /\ UNCHANGED <<url, options, result, trusted>>
    /\ UNCHANGED ruleVars

\* the caller evaluates the two arguments
CallerPicksArguments(u, o) ==
    /\ url = NoArguments
    /\ url' = u
    /\ options' = o
    /\ UNCHANGED <<window, result, trusted>>
    /\ UNCHANGED ruleVars

\* ensureTrustedUrl(url, options)
EnsureTrustedUrlCall ==
    /\ url # NoArguments
    /\ result.kind = "none"
    /\ result' = EnsureTrustedUrl(url, options, window)
    /\ UNCHANGED <<window, url, options, trusted>>
    /\ UNCHANGED ruleVars

\* isTrustedUrl(url, options) on the same arguments
IsTrustedUrlCall ==
    /\ result.kind # "none"
    /\ trusted.kind = "none"
    /\ trusted' = IsTrustedUrl(url, options, window)
    /\ UNCHANGED <<window, url, options, result>>
    /\ UNCHANGED ruleVars

\* the caller is done with the outcomes
CallerContinues ==
    /\ result.kind # "none"
    /\ url' = NoArguments
    /\ options' = DefaultOptions
    /\ result' = NoOutcome
    /\ trusted' = NoOutcome
    /\ UNCHANGED window
    /\ UNCHANGED ruleVars

RuntimeNext ==
    \/ \E w \in Windows : SetWindow(w)
    \/ \E u \in UrlValues, o \in OptionsRecords : CallerPicksArguments(u, o)
    \/ EnsureTrustedUrlCall
    \/ IsTrustedUrlCall
    \/ CallerContinues

RuntimeSpec == RuntimeInit /\ [][RuntimeNext]_vars

-----------------------------------------------------------------------------
(* Claims about the runtime validator, checked under RuntimeSpec           *)

\* ensureTrustedUrl(url, options) has been called and its outcome is in result
Called == result.kind # "none"

Raised(message) ==
    result.kind = "throw" /\ result.error = "TypeError" /\ result.message = message

\* the argument is a non-empty string: it gets past the first check
NonEmptyString == IsString(url) /\ url.s # ""

\* the URL as the parser sees it in the ambient context
ParsedInput == NewURL(url.s, CurrentOrigin(window))

ProtocolAllowed == Includes(OptAllowedProtocols(options), ParsedInput.protocol)

\* the origin is in the allowedOrigins array the caller passed
ListedByCaller(origin) ==
    options.allowedOrigins.t = "array" /\ Includes(options.allowedOrigins.a, origin)

IsCurrentOrigin(origin) ==
    CurrentOrigin(window).t = "string" /\ CurrentOrigin(window).s = origin

NoAmbientOrigin == CurrentOrigin(window).t = "undefined"

\* no scheme at the start of the input once the parser has stripped it
IsRelative(s) == SchemeColon(RemoveTabNewline(TrimEnd(TrimStart(s)))) = 0

\* C3: for a URL that parses and whose protocol is allowed, with allowCrossOrigin
\* false the call raises "Cross-origin URL not allowed" exactly when the parsed
\* origin is neither the current origin nor in the caller's allowedOrigins (so a
\* same-origin URL passes whatever list is passed); with allowCrossOrigin true
\* the origin check never raises.
C3_OriginCheck ==
    (Called /\ NonEmptyString /\ ParsedInput.ok /\ ProtocolAllowed) =>
        IF OptAllowCrossOrigin(options)
        THEN ~Raised("Cross-origin URL not allowed")
        ELSE (Raised("Cross-origin URL not allowed") <=>
                (/\ ~IsCurrentOrigin(ParsedInput.origin)
                 /\ ~ListedByCaller(ParsedInput.origin)))

\* C4: every URL that parses to a protocol outside allowedProtocols raises
\* "Unsafe URL protocol", whatever allowCrossOrigin and allowedOrigins are.
C4_ProtocolFirst ==
    (Called /\ NonEmptyString /\ ParsedInput.ok /\ ~ProtocolAllowed) =>
        Raised("Unsafe URL protocol")

\* the part of C4 that holds: wherever the global `window` binding exists
C4_ProtocolFirst_WindowDeclared ==
    window.binding # "undeclared" => C4_ProtocolFirst

\* C5 as stated: when the input, stripped of everything but lowercase letters
\* and colons, starts with javascript:, the call raises.
C5_RawResidueRaises ==
    (Called /\ IsString(url)
        /\ StartsWith(StripNonLowerColon(url.s), "javascript:")) =>
        result.kind = "throw"

\* C5 amended: when the lowercased input, stripped of everything but a-z and
\* colons, starts with javascript:, the call raises and returns nothing,
\* whatever the options are.
C5_LoweredResidueRaises ==
    (Called /\ IsString(url)
        /\ StartsWith(StripNonLowerColon(ToLowerCase(url.s)), "javascript:")) =>
        (result.kind = "throw" /\ result.value = Undefined)

\* the residue check is what stops a javascript: URL the options would let through
C5_Witness ==
    /\ Called /\ IsString(url)
    /\ StartsWith(StripNonLowerColon(ToLowerCase(url.s)), "javascript:")
    /\ ParsedInput.ok /\ ProtocolAllowed /\ OptAllowCrossOrigin(options)
    /\ Raised("Potentially dangerous URL protocol detected")

\* C6: the step that runs ensureTrustedUrl leaves the ambient window and both
\* arguments as they were, and a value it returns is the argument itself.
C6_ReturnsInputNoEffects ==
    [][(result.kind = "none" /\ result'.kind # "none") =>
          /\ window' = window
          /\ options' = options
          /\ url' = url
          /\ (result'.kind = "return" => result'.value = url)]_vars

\* a returned input that the URL parser would have normalised
C6_Witness ==
    /\ result.kind = "return"
    /\ IsString(url)
    /\ RemoveTabNewline(TrimEnd(TrimStart(url.s))) # url.s
    /\ result.value = url

\* C7: an empty string or a non-string raises "URL must be a non-empty string"
\* whatever the options are, before any later check.
C7_InvalidInputFirst ==
    (Called /\ ~NonEmptyString) => Raised("URL must be a non-empty string")

\* the part of C7 that holds: wherever the global `window` binding exists
C7_InvalidInputFirst_WindowDeclared ==
    window.binding # "undeclared" => C7_InvalidInputFirst

\* C8: with no ambient origin, a relative URL raises "Invalid URL"; an absolute
\* URL with an allowed protocol is returned exactly when allowCrossOrigin is
\* true or its origin is in the caller's allowedOrigins, and raises
\* "Cross-origin URL not allowed" under the default options.
C8_NoAmbientOrigin ==
    (Called /\ NoAmbientOrigin /\ NonEmptyString) =>
        /\ IsRelative(url.s) => Raised("Invalid URL")
        /\ (~IsRelative(url.s) /\ ParsedInput.ok /\ ProtocolAllowed) =>
              /\ (result.kind = "return") <=>
                    (OptAllowCrossOrigin(options) \/ ListedByCaller(ParsedInput.origin))
              /\ options = DefaultOptions => Raised("Cross-origin URL not allowed")

\* C9: isTrustedUrl returns, never throws, and returns true exactly when
\* ensureTrustedUrl on the same arguments in the same context returned.
C9_IsTrustedIffEnsureReturns ==
    trusted.kind # "none" =>
        /\ trusted.kind = "return"
        /\ trusted.value.t = "boolean"
        /\ trusted.value.b <=> (result.kind = "return")

\* isTrustedUrl answered true for a cross-origin URL the options allow
C9_Witness ==
    /\ trusted.kind = "return" /\ trusted.value.b
    /\ result.kind = "return"
    /\ ~IsCurrentOrigin(ParsedInput.origin)

-----------------------------------------------------------------------------
(* The rule no-unsafe-redirect.  Syntax tree nodes are records named after *)
(* their ESTree type.  An Identifier carries `scope`, what                 *)
(* sourceCode.getScope(node).set.get(node.name) finds for it:              *)
(*   "undeclared"     no variable of that name in any scope                *)
(*   "implicitGlobal" a variable of the global scope without definitions   *)
(*   "innermost"      a variable declared in the innermost scope           *)
(*   "outer"          a variable declared in an enclosing, outer scope     *)
(* Every expression carries `ty`, the key of the type that                 *)
(* checker.getTypeAtLocation answers for it, or "throws" when the lookup   *)
(* raises.                                                                 *)

Identifier(name, scope, ty) ==
    [type |-> "Identifier", name |-> name, scope |-> scope, ty |-> ty]
Literal(valueType, value, ty) ==
    [type |-> "Literal", valueType |-> valueType, value |-> value, ty |-> ty]
\* a quasi: value.raw is the source text, value.cooked the text it denotes
TemplateElement(raw, cooked) == [raw |-> raw, cooked |-> cooked]
Text(s) == TemplateElement(s, s)
Template(quasis, expressions, ty) ==
    [type |-> "TemplateLiteral", quasis |-> quasis,
     expressions |-> expressions, ty |-> ty]
Binary(operator, left, right, ty) ==
    [type |-> "BinaryExpression", operator |-> operator, left |-> left,
     right |-> right, ty |-> ty]
Member(object, property, computed, ty) ==
    [type |-> "MemberExpression", object |-> object, property |-> property,
     computed |-> computed, ty |-> ty]
Chain(expression) ==
    [type |-> "ChainExpression", expression |-> expression,
     ty |-> expression.ty]
Call(callee, arguments, ty) ==
    [type |-> "CallExpression", callee |-> callee, arguments |-> arguments,
     ty |-> ty]
Assignment(left, right) ==
    [type |-> "AssignmentExpression", left |-> left, right |-> right]
Declarator(id, init) ==
    [type |-> "VariableDeclarator", id |-> id, init |-> init]
With(object) ==
    [type |-> "WithStatement", object |-> object]
ObjectPattern == [type |-> "ObjectPattern"]

\* ---- the types the oracle answers with --------------------------------
\* symbol: type.getSymbol()?.getName(); kind: union / intersection /
\* stringLiteral / plain; types: constituents; brand: the type of the
\* property __brand ("" when there is none); text: checker.typeToString

TsType(symbol, kind, types, brand, value, text) ==
    [symbol |-> symbol, kind |-> kind, types |-> types, brand |-> brand,
     value |-> value, text |-> text]

TypeKeys ==
    {"string", "any", "undefined", "\"/dashboard\"", "\"TrustedUrl\"",
     "\"Other\"", "Location", "Window", "typeof globalThis",
     "Window & typeof globalThis", "Document", "Navigation",
     "Location | undefined", "TrustedUrl", "OtherBrand", "StringBrand",
     "Faulty"}

\* type objects whose queries raise: type.getSymbol() (line 79) and
\* type.getProperties() (line 98) are called outside any try
FaultyTypes == {"Faulty"}
QueryRaises(type) == checker # "null" /\ type \in FaultyTypes

TypeTable(key) ==
    CASE key = "\"/dashboard\"" ->
            TsType("", "stringLiteral", <<>>, "", "/dashboard", key)
      [] key = "\"TrustedUrl\"" ->
            TsType("", "stringLiteral", <<>>, "", "TrustedUrl", key)
      [] key = "\"Other\"" ->
            TsType("", "stringLiteral", <<>>, "", "Other", key)
      [] key \in {"Location", "Window", "Document", "Navigation"} ->
            TsType(key, "plain", <<>>, "", "", key)
      [] key = "typeof globalThis" ->
            TsType("globalThis", "plain", <<>>, "", "", key)
      [] key = "Window & typeof globalThis" ->
            TsType("", "intersection", <<"Window", "typeof globalThis">>,
                   "", "", key)
      [] key = "Location | undefined" ->
            TsType("", "union", <<"Location", "undefined">>, "", "", key)
      [] key = "TrustedUrl" ->
            TsType("", "intersection", <<"string", "any">>,
                   "\"TrustedUrl\"", "", "TrustedUrl<string>")
      [] key = "OtherBrand" ->
            TsType("", "intersection", <<"string", "any">>,
                   "\"Other\"", "", "string & { __brand: \"Other\"; }")
      [] key = "StringBrand" ->
            TsType("", "intersection", <<"string", "any">>,
                   "string", "", "string & { __brand: string; }")
      [] OTHER -> TsType("", "plain", <<>>, "", "", key)

\* getType (lines 62-70): null without services/checker or when the lookup raises
getType(n) ==
    IF checker = "null" THEN "null"
    ELSE IF n.ty = "throws" THEN "null"
    ELSE n.ty

\* hasTypeName (lines 76-93)
RECURSIVE hasTypeName(_, _)
hasTypeName(type, typeName) ==
    IF checker = "null" THEN FALSE
    ELSE LET t == TypeTable(type) IN
         IF t.symbol = typeName THEN TRUE
         ELSE IF t.kind \in {"union", "intersection"}
              THEN \E i \in 1..Len(t.types) : hasTypeName(t.types[i], typeName)
              ELSE FALSE

\* any property named __brand, whatever its type
isTrustedUrlType_AnyBrand(type) ==
    IF checker = "null" THEN FALSE ELSE TypeTable(type).brand # ""

\* isTrustedUrlType (lines 95-112)
isTrustedUrlType(type) ==
    IF checker = "null" THEN FALSE
    ELSE LET brandProp == TypeTable(type).brand IN
         IF brandProp = "" THEN FALSE
         ELSE LET brandType == TypeTable(brandProp) IN
              IF brandType.kind = "stringLiteral"
              THEN brandType.value = "TrustedUrl"
              ELSE FALSE

\* ---- utils/index.ts ---------------------------------------------------

\* isSafeLiteral (utils lines 7-22)
isSafeLiteral(n) ==
    IF n.type = "Literal" /\ n.valueType = "string" THEN TRUE
    ELSE IF n.type = "TemplateLiteral" /\ Len(n.expressions) = 0 THEN TRUE
    ELSE FALSE

\* isGlobalIdentifier (utils lines 27-41): only the innermost scope's set is read
isGlobalIdentifier(n) ==
    IF n.scope \in {"undeclared", "outer"} THEN TRUE     \* !variable
    ELSE n.scope = "implicitGlobal"                      \* defs.length === 0

\* getRedirectSinkType (utils lines 63-84)
getRedirectSinkType(n) ==
    IF n.property.type = "Identifier"
    THEN IF n.property.name \in {"href", "replace", "assign", "navigate"}
         THEN n.property.name
         ELSE "null"
    ELSE "null"

\* getOpenCallInfo (utils lines 90-113)
getOpenCallInfo(n) ==
    IF n.callee.type = "Identifier" /\ n.callee.name = "open"
    THEN [type |-> "global", identifier |-> n.callee]
    ELSE IF /\ n.callee.type = "MemberExpression"
            /\ n.callee.property.type = "Identifier"
            /\ n.callee.property.name = "open"
         THEN [type |-> "method", object |-> n.callee.object]
         ELSE [type |-> "null"]

\* ---- the classifier ---------------------------------------------------

\* the regular expression /^[/\\]+$/ (lines 125, 150, 162)
SlashOnly(s) ==
    /\ Len(s) > 0
    /\ \A i \in 1..Len(s) : Ch(s, i) \in {"/", "\\"}

\* the loop of lines 138-144
RECURSIVE Leftmost(_)
Leftmost(n) ==
    IF n.type = "BinaryExpression" /\ n.operator = "+"
    THEN Leftmost(n.left)
    ELSE n

\* any non-empty first segment, whatever its characters
InterpolatedTemplateSafe_AnyPrefix(n) ==
    Len(n.quasis[1].raw) > 0

\* lines 123-131: a template literal with expressions
InterpolatedTemplateSafe(n) ==
    LET firstQuasi == n.quasis[1] IN
    IF Len(firstQuasi.raw) > 0
    THEN IF SlashOnly(firstQuasi.raw) THEN FALSE ELSE TRUE
    ELSE FALSE

\* the leftmost operand decides only if the right operand is a literal
ConcatenationSafe_RightOperandToo(n) ==
    LET leftmost == Leftmost(n.left) IN
    /\ isSafeLiteral(n.right)
    /\ \/ /\ leftmost.type = "Literal"
          /\ leftmost.valueType = "string"
          /\ ~SlashOnly(leftmost.value)
       \/ /\ leftmost.type = "TemplateLiteral"
          /\ Len(leftmost.quasis) = 1
          /\ Len(leftmost.quasis[1].raw) > 0
          /\ ~SlashOnly(leftmost.quasis[1].raw)

\* lines 138-169: a + chain
ConcatenationSafe(n) ==
    LET leftmost == Leftmost(n.left) IN
    IF leftmost.type = "Literal" /\ leftmost.valueType = "string"
    THEN IF SlashOnly(leftmost.value) THEN FALSE ELSE TRUE
    ELSE IF /\ leftmost.type = "TemplateLiteral"
            /\ Len(leftmost.quasis) = 1
            /\ Len(leftmost.quasis[1].raw) > 0
         THEN IF SlashOnly(leftmost.quasis[1].raw) THEN FALSE ELSE TRUE
         ELSE FALSE

\* the name, whether the callee is an identifier or a member's property
IsValidatorCall_AnyCallee(n) ==
    /\ n.type = "CallExpression"
    /\ \/ n.callee.type = "Identifier" /\ n.callee.name = "ensureTrustedUrl"
       \/ /\ n.callee.type = "MemberExpression"
          /\ n.callee.property.type = "Identifier"
          /\ n.callee.property.name = "ensureTrustedUrl"

\* lines 183-189: a call of an identifier named ensureTrustedUrl
IsValidatorCall(n) ==
    IF n.type = "CallExpression"
    THEN IF n.callee.type = "Identifier"
         THEN n.callee.name = "ensureTrustedUrl"
         ELSE FALSE
    ELSE FALSE

\* isValueSafe (lines 114-192)
isValueSafe(n) ==
    IF isSafeLiteral(n) THEN TRUE
    ELSE IF n.type = "TemplateLiteral" /\ Len(n.expressions) > 0
    THEN InterpolatedTemplateSafe(n)
    ELSE IF n.type = "BinaryExpression" /\ n.operator = "+"
    THEN ConcatenationSafe(n)
    ELSE LET type == getType(n) IN
         IF type # "null" /\ isTrustedUrlType(type) THEN TRUE
         ELSE IF type # "null" /\ TypeTable(type).kind = "stringLiteral" THEN TRUE
         ELSE IF IsValidatorCall(n) THEN TRUE
              ELSE FALSE

\* isValueSafe reaches isTrustedUrlType (line 174) with a type whose
\* property listing raises
isValueSafeRaises(n) ==
    /\ ~isSafeLiteral(n)
    /\ ~(n.type = "TemplateLiteral" /\ Len(n.expressions) > 0)
    /\ ~(n.type = "BinaryExpression" /\ n.operator = "+")
    /\ getType(n) # "null"
    /\ QueryRaises(getType(n))

\* ---- the resolver -----------------------------------------------------

\* isRedirectObject (lines 194-278)
RECURSIVE isRedirectObject(_)
isRedirectObject(n) ==
    LET type == getType(n)
        byType ==
            IF type = "null" THEN "null"
            ELSE IF QueryRaises(type) THEN "raised"            \* line 79
            ELSE IF hasTypeName(type, "Location") THEN "location"
            ELSE IF hasTypeName(type, "Window") THEN "window"
            ELSE IF hasTypeName(type, "typeof globalThis") THEN "window"
            ELSE IF hasTypeName(type, "Document") THEN "window"
            ELSE "null"
        byIdentifier ==
            IF n.type # "Identifier" THEN "null"
            ELSE LET varInfo ==
                         IF n.name \in DOMAIN trackedVariables
                         THEN trackedVariables[n.name]
                         ELSE NoTracked
                     tracked ==
                         IF n.name \notin DOMAIN trackedVariables THEN "null"
                         ELSE IF varInfo.isLocation THEN "location"
                         ELSE IF varInfo.isNavigation THEN "navigation"
                         ELSE IF varInfo.isWindow THEN "window"
                         ELSE "null"
                 IN IF tracked # "null" THEN tracked
                    ELSE IF isGlobalIdentifier(n)
                            /\ n.name \in {"location", "window", "navigation"}
                         THEN n.name
                         ELSE "null"
        byMember ==
            IF n.type # "MemberExpression" THEN "null"
            ELSE LET object == n.object
                     property == n.property
                     named ==
                         IF /\ object.type = "Identifier"
                            /\ property.type = "Identifier"
                         THEN LET isGlobal == isGlobalIdentifier(object) IN
                              IF /\ property.name = "location"
                                 /\ isGlobal
                                 /\ object.name \in
                                      {"window", "document", "globalThis"}
                              THEN "location"
                              ELSE IF /\ object.name = "window"
                                      /\ property.name = "navigation"
                                      /\ isGlobal
                                   THEN "navigation"
                                   ELSE "null"
                         ELSE "null"
                     objectType == isRedirectObject(object)    \* line 263
                 IN IF named # "null" THEN named
                    ELSE IF objectType = "raised" THEN "raised"
                    ELSE IF /\ property.type = "Identifier"
                            /\ property.name \in {"location", "navigation"}
                            /\ objectType = "window"
                         THEN property.name
                         ELSE "null"
    IN IF byType # "null" THEN byType
       ELSE IF byIdentifier # "null" THEN byIdentifier
       ELSE byMember

\* the outermost with object in place of the innermost
getCurrentWithObject_Outermost ==
    IF Len(withStack) > 0 THEN withStack[1] ELSE "null"

\* getCurrentWithObject (lines 287-295)
getCurrentWithObject ==
    IF Len(withStack) > 0 THEN withStack[Len(withStack)] ELSE "null"

\* unwrapChainExpression (lines 297-302)
unwrapChainExpression(n) ==
    IF n.type = "ChainExpression" THEN n.expression ELSE n

\* ---- the sink visitor -------------------------------------------------

\* String.prototype.includes (line 394)
StringIncludes(s, sub) ==
    \E i \in 1..Len(s) :
        i + Len(sub) <= Len(s) + 1 /\ SubSeq(s, i, i + Len(sub) - 1) = sub

\* reportUnsafeRedirect (lines 280-285): one context.report anchored at n
reportUnsafeRedirect(n) == <<n>>

\* what a stretch of a callback did: the answer of isValueSafe, if it was
\* asked, and the reports made
Nothing == [verdict |-> "none", reports |-> <<>>]

\* an exception left the callback: nothing after it runs
Threw == [verdict |-> "threw", reports |-> <<>>]

\* if (!isValueSafe(v)) reportUnsafeRedirect(v)
Checked(v) ==
    IF isValueSafeRaises(v) THEN Threw
    ELSE IF isValueSafe(v)
    THEN [verdict |-> "safe", reports |-> <<>>]
    ELSE [verdict |-> "unsafe", reports |-> reportUnsafeRedirect(v)]

\* two stretches one after the other
Then(a, b) ==
    IF a.verdict = "threw" THEN a
    ELSE IF b.verdict = "threw" THEN [verdict |-> "threw", reports |-> a.reports]
    ELSE [verdict |-> IF a.verdict # "none" THEN a.verdict ELSE b.verdict,
          reports |-> a.reports \o b.reports]

Returned(o) == [returned |-> TRUE, outcome |-> o]
FellThrough(o) == [returned |-> FALSE, outcome |-> o]

\* AssignmentExpression, lines 332-378: the target is a member expression
AssignmentToMember(unwrappedLeft, right) ==
    LET object == unwrappedLeft.object
        property == unwrappedLeft.property
        sinkType == getRedirectSinkType(unwrappedLeft)
        objectType == isRedirectObject(object)
    IN
    IF /\ objectType = "raised"
       /\ \/ sinkType # "null" /\ property.type = "Identifier"  \* 337
          \/ property.type = "Identifier" /\ property.name = "location" \* 350
          \/ unwrappedLeft.computed                             \* 371
    THEN Returned(Threw)
    ELSE
    IF /\ sinkType # "null"
       /\ property.type = "Identifier"
       /\ objectType = "location"
    THEN Returned(Checked(right))                              \* 338-343
    ELSE
    LET toLocation ==                                          \* 346-368
            IF property.type = "Identifier" /\ property.name = "location"
            THEN IF objectType = "window"
                 THEN Returned(Checked(right))                 \* 351-356
                 ELSE IF /\ object.type = "Identifier"
                         /\ isGlobalIdentifier(object)
                         /\ object.name \in {"document", "globalThis"}
                      THEN FellThrough(Checked(right))         \* 362-366
                      ELSE FellThrough(Nothing)
            ELSE FellThrough(Nothing)
        computed ==                                            \* 370-377
            IF unwrappedLeft.computed /\ objectType = "location"
            THEN Checked(right)
            ELSE Nothing
    IN IF toLocation.returned THEN toLocation
       ELSE FellThrough(Then(toLocation.outcome, computed))

\* AssignmentExpression, lines 380-408: the target is an identifier
AssignmentToIdentifier(left, right) ==
    LET objectType == isRedirectObject(left) IN                \* 381
    IF objectType = "raised" THEN Threw
    ELSE
    IF objectType = "location"
    THEN Checked(right)                                        \* 382-387
    ELSE
    LET withinObject == getCurrentWithObject
        leftType == getType(left)
        typeName == IF leftType = "null" THEN "" ELSE TypeTable(leftType).text
        typed ==                                               \* 392-400
            IF /\ leftType # "null"
               /\ (typeName = "string" \/ StringIncludes(typeName, "Location"))
               /\ left.name = "href"
            THEN Checked(right)
            ELSE Nothing
        inLocation ==                                          \* 402-406
            IF withinObject = "location" /\ left.name = "href"
            THEN Checked(right)
            ELSE Nothing
    IN IF withinObject = "null" THEN Nothing
       ELSE IF typed.reports # <<>> THEN typed                 \* 396-397
       ELSE Then(typed, inLocation)

\* AssignmentExpression (lines 328-409)
AssignmentExpressionOutcome(n) ==
    LET left == n.left
        right == n.right
        unwrappedLeft == unwrapChainExpression(left)
        member == IF unwrappedLeft.type = "MemberExpression"
                  THEN AssignmentToMember(unwrappedLeft, right)
                  ELSE FellThrough(Nothing)
    IN IF member.returned \/ member.outcome.verdict = "threw"
       THEN member.outcome
       ELSE Then(member.outcome,
                 IF left.type = "Identifier"
                 THEN AssignmentToIdentifier(left, right)
                 ELSE Nothing)

\* if (urlArg && !isValueSafe(urlArg)) reportUnsafeRedirect(urlArg)
CheckedArgument(args) ==
    IF Len(args) > 0 THEN Checked(args[1]) ELSE Nothing

\* CallExpression (lines 411-474)
CallExpressionOutcome(n) ==
    LET callee == n.callee
        args == n.arguments
        openInfo == getOpenCallInfo(n)
    IN
    IF openInfo.type # "null"
    THEN LET objectType ==
                 IF openInfo.type = "method"
                 THEN isRedirectObject(openInfo.object) ELSE "null"
             isValidOpen ==                                    \* 416-426
                 IF openInfo.type = "global"
                 THEN isGlobalIdentifier(openInfo.identifier)
                 ELSE objectType = "window"
         IN IF objectType = "raised"                           \* 424
            THEN Threw
            ELSE IF isValidOpen THEN CheckedArgument(args) ELSE Nothing
    ELSE
    LET unwrappedCallee == unwrapChainExpression(callee)
        sinkType == IF unwrappedCallee.type = "MemberExpression"
                    THEN getRedirectSinkType(unwrappedCallee)
                    ELSE "null"
        objectType == IF sinkType # "null"
                      THEN isRedirectObject(unwrappedCallee.object)
                      ELSE "null"
        onLocation ==                                          \* 442-450
            IF /\ sinkType \in {"replace", "assign"}
               /\ objectType = "raised"
            THEN Threw
            ELSE
            IF /\ sinkType \in {"replace", "assign"}
               /\ objectType = "location"
            THEN CheckedArgument(args)
            ELSE Nothing
        onNavigation ==                                        \* 452-460
            IF /\ sinkType = "navigate"
               /\ objectType = "raised"
            THEN Threw
            ELSE
            IF /\ sinkType = "navigate"
               /\ objectType = "navigation"
            THEN CheckedArgument(args)
            ELSE Nothing
        inWith ==                                              \* 463-473
            IF /\ callee.type = "Identifier"
               /\ getCurrentWithObject = "location"
               /\ callee.name \in {"replace", "assign"}
            THEN CheckedArgument(args)
            ELSE Nothing
    IN Then(Then(onLocation, onNavigation), inWith)

-----------------------------------------------------------------------------
(* Program fragments handed to the rule                                    *)

MaxWindowChain == 2      \* repeated .window segments in a member chain
MaxWithDepth == 2        \* nested with statements
MaxSegmentUnits == 2     \* units of text in a template's first segment
MaxInterpolations == 2   \* ${} holes of a template literal
MaxOperators == 2        \* + operators of a concatenation chain

Checkers == {"TypeChecker", "null"}

\* the property name of a non-computed member access
Property(name) == Identifier(name, "undeclared", "throws")
Global(name, ty) == Identifier(name, "undeclared", ty)
Local(name, ty) == Identifier(name, "innermost", ty)

\* the type of object.name under the DOM library typings
MemberType(ty, name) ==
    IF ty = "throws" THEN "throws"
    ELSE IF /\ ty \in {"Window & typeof globalThis", "Window",
                       "typeof globalThis"}
            /\ name \in {"window", "location", "navigation"}
    THEN CASE name = "window" -> "Window & typeof globalThis"
           [] name = "location" -> "Location"
           [] name = "navigation" -> "Navigation"
    ELSE IF ty = "Document" /\ name = "location" THEN "Location"
    ELSE IF ty \in {"Location", "Location | undefined"} /\ name = "href"
    THEN "string"
    ELSE "any"

Dot(object, name) ==
    Member(object, Property(name), FALSE, MemberType(object.ty, name))
Index(object, key) == Member(object, key, TRUE, "any")

someVariable == Global("someVariable", "string")

\* values reaching a sink
SinkValues ==
    {Literal("string", "/dashboard", "\"/dashboard\""),
     Template(<<Text("/dashboard")>>, <<>>, "\"/dashboard\""),
     Template(<<Text("/dashboard/"), Text("")>>, <<someVariable>>, "string"),
     Binary("+", Literal("string", "/dashboard/", "\"/dashboard/\""),
            someVariable, "string"),
     Call(Global("ensureTrustedUrl", "any"), <<someVariable>>, "TrustedUrl"),
     Local("validated", "TrustedUrl"),
     someVariable,
     Template(<<Text("/"), Text("")>>, <<someVariable>>, "string"),
     Call(Global("someFunction", "any"), <<>>, "string"),
     Binary("+", someVariable, Literal("string", "/", "\"/\""), "string")}

ArgumentLists == {<<>>} \cup {<<v>> : v \in SinkValues}

RECURSIVE WindowChain(_)
WindowChain(n) ==
    IF n = 0 THEN Global("window", "Window & typeof globalThis")
    ELSE Dot(WindowChain(n - 1), "window")

IdentifierObjects ==
    {Global("location", "Location"),
     Global("window", "Window & typeof globalThis"),
     Global("document", "Document"),
     Global("globalThis", "typeof globalThis"),
     Global("navigation", "Navigation"),
     Identifier("window", "implicitGlobal", "Window & typeof globalThis"),
     Identifier("location", "outer", "string"),
     Local("location", "string"),
     Local("window", "any"),
     Local("loc", "throws"),
     Local("l", "Location"),
     Local("w", "Window"),
     Local("maybe", "Location | undefined"),
     Local("obj", "any")}

WindowChains == {WindowChain(i) : i \in 1..MaxWindowChain}

LocationHolders ==
    {Global("window", "Window & typeof globalThis"), Global("document", "Document"),
     Global("globalThis", "typeof globalThis"), Local("window", "any"),
     Local("loc", "throws"), Local("w", "Window"), Local("obj", "any")}
      \cup WindowChains

Objects ==
    IdentifierObjects \cup WindowChains
      \cup {Dot(o, "location") : o \in LocationHolders}
      \cup {Dot(Global("window", "Window & typeof globalThis"), "navigation"),
            Chain(Dot(Global("window", "Window & typeof globalThis"),
                      "location"))}

ChainedObjects ==
    {Global("location", "Location"),
     Global("window", "Window & typeof globalThis"),
     Dot(Global("window", "Window & typeof globalThis"), "location")}

Keys ==
    {Literal("string", "href", "\"href\""), Global("location", "Location"),
     Local("x", "\"href\"")}

AssignmentTargets ==
    {Dot(o, p) : o \in Objects, p \in {"href", "location", "hash"}}
      \cup {Index(o, k) : o \in Objects, k \in Keys}
      \cup {Chain(Dot(o, p)) : o \in ChainedObjects, p \in {"href", "location"}}
      \cup {Dot(o, p) : o \in ChainedObjects \cup {Local("loc", "throws")},
                        p \in {"search", "replace", "assign", "navigate"}}
      \cup IdentifierObjects
      \cup {Global("href", "string"), Global("href", "throws")}

Callees ==
    {Dot(o, m) : o \in Objects,
                 m \in {"replace", "assign", "navigate", "open", "reload"}}
      \cup {Chain(Dot(o, m)) : o \in ChainedObjects, m \in {"replace", "open"}}
      \cup {Identifier("open", s, "any") :
               s \in {"undeclared", "implicitGlobal", "innermost", "outer"}}
      \cup {Global(f, "any") : f \in {"replace", "assign", "navigate", "f"}}

\* statements that touch a value whose type object is faulty
faulty == Local("faulty", "Faulty")
FaultyAssignments ==
    {Assignment(Dot(faulty, "href"), someVariable),
     Assignment(Dot(faulty, "hash"), someVariable),
     Assignment(faulty, someVariable),
     Assignment(Dot(Global("location", "Location"), "href"), faulty),
     Assignment(Dot(Global("location", "Location"), "hash"), faulty)}
FaultyCalls ==
    {Call(Dot(faulty, "open"), <<someVariable>>, "any"),
     Call(Dot(faulty, "replace"), <<someVariable>>, "any"),
     Call(Dot(faulty, "reload"), <<>>, "any"),
     Call(Dot(Global("location", "Location"), "replace"), <<faulty>>, "any")}

Assignments ==
    {Assignment(l, r) : l \in AssignmentTargets, r \in SinkValues}
      \cup FaultyAssignments
Calls ==
    {Call(c, a, "any") : c \in Callees, a \in ArgumentLists}
      \cup FaultyCalls
Declarators ==
    {Declarator(Local("loc", "throws"), i) : i \in Objects \cup {NoNode}}
      \cup {Declarator(Local("document", "throws"), Global("location", "Location")),
            Declarator(ObjectPattern, Global("location", "Location"))}
Withs == {With(o) : o \in Objects}

\* inside a with body: bare names and nested with statements.  The
\* TypeScript checker answers no semantic question inside a with block:
\* getTypeAtLocation gives its error type, printed "any", for every node there
WithBodyValues ==
    {Literal("string", "/dashboard", "any"), Global("someVariable", "any")}
WithBodyAssignments ==
    {Assignment(l, r) :
        l \in {Global("href", "any"), Global("href", "throws"),
               Global("location", "any"), Local("obj", "any")},
        r \in WithBodyValues}
WithBodyCalls ==
    {Call(Global(f, "any"), a, "any") :
        f \in {"replace", "assign", "open", "f"},
        a \in {<<>>} \cup {<<v>> : v \in WithBodyValues}}
WithBodyWiths ==
    {With(o) : o \in {Global("location", "any"), Global("window", "any"),
                      Global("navigation", "any"), Local("obj", "any")}}

\* template literals handed to the classifier alone
\* a slash, an escaped backslash, a letter, a slash written as an escape
SegmentUnits ==
    {Text("/"), TemplateElement("\\\\", "\\"), Text("a"),
     TemplateElement("\\u002f", "/")}
RECURSIVE Segments(_)
Segments(n) ==
    IF n = 0 THEN {Text("")}
    ELSE Segments(n - 1)
           \cup {TemplateElement(s.raw \o u.raw, s.cooked \o u.cooked) :
                    s \in Segments(n - 1), u \in SegmentUnits}
RECURSIVE LaterSegments(_)
LaterSegments(n) ==
    IF n = 0 THEN {<<>>}
    ELSE {Append(q, Text(s)) : q \in LaterSegments(n - 1), s \in {"", "/x"}}
RECURSIVE Holes(_)
Holes(n) == IF n = 0 THEN <<>> ELSE Append(Holes(n - 1), someVariable)
\* a template expression is typed string, or a literal type under a
\* literal contextual type
ValueTypes == {"throws", "string", "\"/dashboard\""}
Templates ==
    UNION {{Template(<<first>> \o later, Holes(k), ty) :
               first \in Segments(MaxSegmentUnits),
               later \in LaterSegments(k),
               ty \in ValueTypes} : k \in 0..MaxInterpolations}

\* + chains handed to the classifier alone
StringLiterals ==
    {Literal("string", s.cooked, "string") : s \in Segments(MaxSegmentUnits)}
LeftmostOperands ==
    StringLiterals
      \cup {Template(<<s>>, <<>>, "string") : s \in Segments(MaxSegmentUnits)}
      \cup {Template(<<Text("/dashboard/"), Text("")>>, <<someVariable>>, "string"),
            Literal("number", "5", "number"),
            someVariable,
            Call(Global("someFunction", "any"), <<>>, "string"),
            Call(Global("ensureTrustedUrl", "any"), <<someVariable>>, "TrustedUrl")}
LaterOperands ==
    {someVariable,
     Literal("string", "/x", "\"/x\""),
     Call(Global("someFunction", "any"), <<>>, "string"),
     Binary("+", Literal("string", "/dashboard/", "\"/dashboard/\""),
            someVariable, "string")}
ChainTypes == {"string", "any", "throws"}
RECURSIVE Chains(_)
Chains(n) ==
    IF n = 0 THEN LeftmostOperands
    ELSE {Binary("+", l, r, "string") : l \in Chains(n - 1), r \in LaterOperands}
Concatenations ==
    UNION {{[c EXCEPT !.ty = ty] : c \in Chains(k), ty \in ChainTypes} :
              k \in 1..MaxOperators}

\* identifiers, calls and member reads of every static type
TypedValues ==
    UNION {{Local("value", ty),
            Call(Global("someFunction", "any"), <<>>, ty),
            Call(Global("ensureTrustedUrl", "any"), <<someVariable>>, ty),
            Call(Global("ensureTrustedUrl", "any"), <<>>, ty),
            Call(Local("ensureTrustedUrl", "any"), <<someVariable>>, ty),
            Call(Global("validate", "any"), <<someVariable>>, ty),
            Call(Member(Local("obj", "any"), Property("ensureTrustedUrl"),
                        FALSE, "any"), <<someVariable>>, ty),
            Member(Local("obj", "any"), Property("url"), FALSE, ty)} :
              ty \in TypeKeys \cup {"throws"}}
      \cup {Literal("number", "5", "any")}

ClassifierValues ==
    Templates \cup Concatenations \cup TypedValues \cup SinkValues

-----------------------------------------------------------------------------
(* Spec: one pass of the rule.  The traversal hands nodes to the visitor   *)
(* callbacks one at a time; a callback runs to completion before the next  *)
(* node is visited.                                                        *)

\* create(context), lines 50-60
Init ==
    /\ window = Browser("https://example.com")
    /\ url = NoArguments
    /\ options = DefaultOptions
    /\ result = NoOutcome
    /\ trusted = NoOutcome
    /\ checker \in Checkers
    /\ RuleInit

\* withStack.push(objectType), line 307
Push(stack, objectType) == Append(stack, objectType)

\* one variable for the current with object, in place of a stack
Pop_Clear(stack) == <<>>

\* withStack.pop(), line 311
Pop(stack) ==
    IF Len(stack) > 0 THEN SubSeq(stack, 1, Len(stack) - 1) ELSE stack

\* WithStatement(node), lines 305-308
WithStatement(n) ==
    /\ node = NoNode
    /\ enclosingWiths < MaxWithDepth
    /\ enclosingWiths' = enclosingWiths + 1
    /\ node' = n
    /\ LET objectType == isRedirectObject(n.object) IN
         /\ withStack' = IF objectType = "raised" THEN withStack
                         ELSE Push(withStack, objectType)
         /\ verdict' = IF objectType = "raised" THEN "threw" ELSE "none"
    /\ reports' = <<>>
    /\ UNCHANGED <<checker, trackedVariables>>
    /\ UNCHANGED runtimeVars
    /\ UNCHANGED hostVars

\* "WithStatement:exit"(), lines 310-312
WithStatementExit ==
    /\ node = NoNode
    /\ enclosingWiths > 0
    /\ enclosingWiths' = enclosingWiths - 1
    /\ withStack' = Pop(withStack)
    /\ UNCHANGED <<checker, trackedVariables, node, reports, verdict>>
    /\ UNCHANGED runtimeVars
    /\ UNCHANGED hostVars

\* trackedVariables.set(node.id.name, {...}), lines 318-323
SetTracked(tracked, name, objectType) ==
    [other \in DOMAIN tracked \cup {name} |->
        IF other = name
        THEN [isLocation |-> objectType = "location",
              isNavigation |-> objectType = "navigation",
              isWindow |-> objectType = "window"]
        ELSE tracked[other]]

\* the latest declarator of a name decides alone: an initialiser that is no
\* redirect object removes the entry
TrackedAfter_LatestDeclaratorOnly(n) ==
    IF n.id.type = "Identifier" /\ n.init # NoNode
    THEN LET objectType == isRedirectObject(n.init) IN
         IF objectType # "null"
         THEN SetTracked(trackedVariables, n.id.name, objectType)
         ELSE [other \in DOMAIN trackedVariables \ {n.id.name} |->
                  trackedVariables[other]]
    ELSE trackedVariables

\* trackedVariables after the body of VariableDeclarator, lines 315-325
TrackedAfter(n) ==
    IF n.id.type = "Identifier" /\ n.init # NoNode
    THEN LET objectType == isRedirectObject(n.init) IN
         IF objectType \notin {"null", "raised"}
         THEN SetTracked(trackedVariables, n.id.name, objectType)
         ELSE trackedVariables
    ELSE trackedVariables

\* VariableDeclarator(node), lines 314-326
VariableDeclarator(n) ==
    /\ node = NoNode
    /\ node' = n
    /\ trackedVariables' = TrackedAfter(n)
    /\ reports' = <<>>
    /\ verdict' = IF /\ n.id.type = "Identifier"
                     /\ n.init # NoNode
                     /\ isRedirectObject(n.init) = "raised"
                  THEN "threw" ELSE "none"
    /\ UNCHANGED <<checker, withStack, enclosingWiths>>
    /\ UNCHANGED runtimeVars
    /\ UNCHANGED hostVars

\* AssignmentExpression(node), lines 328-409
AssignmentExpression(n) ==
    /\ node = NoNode
    /\ node' = n
    /\ LET outcome == AssignmentExpressionOutcome(n) IN
         /\ reports' = outcome.reports
         /\ verdict' = outcome.verdict
    /\ UNCHANGED <<checker, trackedVariables, withStack, enclosingWiths>>
    /\ UNCHANGED runtimeVars
    /\ UNCHANGED hostVars

\* CallExpression(node), lines 411-474
CallExpression(n) ==
    /\ node = NoNode
    /\ node' = n
    /\ LET outcome == CallExpressionOutcome(n) IN
         /\ reports' = outcome.reports
         /\ verdict' = outcome.verdict
    /\ UNCHANGED <<checker, trackedVariables, withStack, enclosingWiths>>
    /\ UNCHANGED runtimeVars
    /\ UNCHANGED hostVars

\* the callback has returned and the traversal moves to the next node; an
\* exception that left the callback ends the pass
CallbackReturns ==
    /\ node # NoNode
    /\ verdict # "threw"
    /\ node' = NoNode
    /\ reports' = <<>>
    /\ verdict' = "none"
    /\ UNCHANGED <<checker, trackedVariables, withStack, enclosingWiths>>
    /\ UNCHANGED runtimeVars
    /\ UNCHANGED hostVars

Next ==
    \/ \E n \in (IF enclosingWiths = 0 THEN Withs ELSE WithBodyWiths) :
          WithStatement(n)
    \/ WithStatementExit
    \/ \E n \in (IF enclosingWiths = 0 THEN Declarators ELSE {}) :
          VariableDeclarator(n)
    \/ \E n \in (IF enclosingWiths = 0 THEN Assignments ELSE WithBodyAssignments) :
          AssignmentExpression(n)
    \/ \E n \in (IF enclosingWiths = 0 THEN Calls ELSE WithBodyCalls) :
          CallExpression(n)
    \/ CallbackReturns

Spec == Init /\ [][Next]_vars

-----------------------------------------------------------------------------
(* ClassifierSpec: isValueSafe applied to one value expression             *)

ClassifierInit ==
    /\ window = Browser("https://example.com")
    /\ url = NoArguments
    /\ options = DefaultOptions
    /\ result = NoOutcome
    /\ trusted = NoOutcome
    /\ checker \in Checkers
    /\ trackedVariables = NoTracked
    /\ withStack = <<>>
    /\ node \in ClassifierValues
    /\ reports = <<>>
    /\ verdict = "none"
    /\ enclosingWiths = 0
    /\ passes = <<>>
    /\ closures = <<>>
    /\ running = 0

\* isValueSafe(node), lines 114-192
IsValueSafeCall ==
    /\ verdict = "none"
    /\ verdict' = IF isValueSafe(node) THEN "safe" ELSE "unsafe"
    /\ UNCHANGED <<checker, trackedVariables, withStack, node, reports,
                   enclosingWiths>>
    /\ UNCHANGED runtimeVars
    /\ UNCHANGED hostVars

ClassifierNext == IsValueSafeCall

ClassifierSpec == ClassifierInit /\ [][ClassifierNext]_vars

-----------------------------------------------------------------------------
(* PassesSpec: the host runs several analysis passes, one create() call    *)
(* each, and interleaves their callbacks                                   *)

MaxCallbacks == 2        \* callbacks of the traversal of the file under study

declaresLoc == Declarator(Local("loc", "throws"), Global("location", "Location"))
entersWith == With(Global("location", "Location"))
leavesWith == [type |-> "WithStatement:exit"]
usesLoc == Assignment(Dot(Local("loc", "throws"), "href"), someVariable)
bareHref == Assignment(Global("href", "any"), Global("someVariable", "any"))

Callbacks == {declaresLoc, entersWith, leavesWith, usesLoc, bareHref}

\* the callbacks a traversal makes, in order; a WithStatement:exit callback
\* follows the WithStatement it closes
Traversals ==
    {s \in UNION {[1..n -> Callbacks] : n \in 1..MaxCallbacks} :
        \A i \in 1..Len(s) :
            Cardinality({j \in 1..i : s[j] = leavesWith})
              <= Cardinality({j \in 1..i : s[j] = entersWith})}

\* const trackedVariables = new Map(); const withStack = []; (lines 59-60)
NewClosure == [trackedVariables |-> NoTracked, withStack |-> <<>>]

\* one map and one stack for the module, shared by every create() call
create_Shared(p) == 1

\* create(context), lines 50-60: the map and the stack are locals of the
\* call, so each pass gets a pair of its own
create(p) == p

PassesInit ==
    /\ window = Browser("https://example.com")
    /\ url = NoArguments
    /\ options = DefaultOptions
    /\ result = NoOutcome
    /\ trusted = NoOutcome
    /\ checker = "null"
    /\ trackedVariables = NoTracked
    /\ withStack = <<>>
    /\ node = NoNode
    /\ reports = <<>>
    /\ verdict = "none"
    /\ enclosingWiths = 0
    \* passes 1 and 2 analyse the same file, pass 3 another one
    /\ \E f \in Traversals :
          passes = [p \in 1..3 |->
                      [file |-> IF p = 3 THEN <<entersWith, declaresLoc>> ELSE f,
                       position |-> 0, closure |-> 0, diagnostics |-> <<>>]]
    /\ closures = [c \in 1..3 |-> NewClosure]
    /\ running = 0

\* the host calls create(context) for a file, lines 50-60
Create(p) ==
    /\ passes[p].closure = 0
    /\ passes' = [passes EXCEPT ![p].closure = create(p)]
    /\ closures' = [closures EXCEPT ![create(p)] = NewClosure]
    /\ running' = 0
    /\ UNCHANGED <<checker, trackedVariables, withStack, node, reports,
                   verdict, enclosingWiths>>
    /\ UNCHANGED runtimeVars

\* the host turns to pass p: its callbacks see the map and the stack that
\* its create() call made
Resume(p) ==
    /\ passes[p].closure # 0
    /\ running # p
    /\ passes[p].position < Len(passes[p].file)
    /\ running' = p
    /\ trackedVariables' = closures[passes[p].closure].trackedVariables
    /\ withStack' = closures[passes[p].closure].withStack
    /\ node' = NoNode
    /\ reports' = <<>>
    /\ verdict' = "none"
    /\ UNCHANGED <<checker, enclosingWiths, passes, closures>>
    /\ UNCHANGED runtimeVars

\* the traversal of the running pass calls the listener for its next node
\* (lines 304-475)
Callback ==
    /\ running # 0
    /\ passes[running].position < Len(passes[running].file)
    /\ LET n == passes[running].file[passes[running].position + 1]
           outcome == IF n.type = "AssignmentExpression"
                      THEN AssignmentExpressionOutcome(n)
                      ELSE Nothing
       IN /\ node' = n
          /\ trackedVariables' =
               IF n.type = "VariableDeclarator" THEN TrackedAfter(n)
               ELSE trackedVariables
          /\ withStack' =
               IF n.type = "WithStatement"
               THEN Push(withStack, isRedirectObject(n.object))
               ELSE IF n.type = "WithStatement:exit" THEN Pop(withStack)
               ELSE withStack
          /\ reports' = outcome.reports
          /\ verdict' = outcome.verdict
          /\ passes' = [passes EXCEPT
                          ![running].position = @ + 1,
                          ![running].diagnostics = @ \o outcome.reports]
    /\ closures' = [closures EXCEPT ![passes[running].closure] =
                       [trackedVariables |-> trackedVariables',
                        withStack |-> withStack']]
    /\ UNCHANGED <<checker, enclosingWiths, running>>
    /\ UNCHANGED runtimeVars

PassesNext ==
    \/ \E p \in 1..3 : Create(p)
    \/ \E p \in 1..3 : Resume(p)
    \/ Callback

PassesSpec == PassesInit /\ [][PassesNext]_vars

-----------------------------------------------------------------------------
(* Claims about the sink visitor, checked under Spec                       *)

VisitedSink == node.type \in {"AssignmentExpression", "CallExpression"}

\* the right-hand side of an assignment, the first argument of a call
ValueOf(n) ==
    IF n.type = "AssignmentExpression" THEN n.right
    ELSE IF n.type = "CallExpression" /\ Len(n.arguments) > 0
         THEN n.arguments[1]
         ELSE NoNode

\* the forms of value that are listed as safe
ListedSafe(v) ==
    \/ v.type = "Literal" /\ v.valueType = "string"
    \/ v.type = "TemplateLiteral" /\ Len(v.expressions) = 0
    \/ /\ v.type = "TemplateLiteral"
       /\ Len(v.expressions) > 0
       /\ \E i \in 1..Len(v.quasis[1].raw) :
             Ch(v.quasis[1].raw, i) \notin {"/", "\\"}
    \/ /\ v.type = "BinaryExpression"
       /\ v.operator = "+"
       /\ \/ /\ Leftmost(v).type = "Literal"
             /\ Leftmost(v).valueType = "string"
             /\ \E i \in 1..Len(Leftmost(v).value) :
                   Ch(Leftmost(v).value, i) \notin {"/", "\\"}
          \/ /\ Leftmost(v).type = "TemplateLiteral"
             /\ Len(Leftmost(v).quasis) = 1
             /\ \E i \in 1..Len(Leftmost(v).quasis[1].raw) :
                   Ch(Leftmost(v).quasis[1].raw, i) \notin {"/", "\\"}
    \/ /\ v.type = "CallExpression"
       /\ v.callee.type = "Identifier"
       /\ v.callee.name = "ensureTrustedUrl"
    \/ v.type # "none" /\ v.ty = "TrustedUrl" /\ checker # "null"

\* C1: an assignment or call recognised as a sink whose value the classifier
\* finds unsafe gets exactly one report, anchored at the value expression
C1_ExactlyOneDiagnostic ==
    (VisitedSink /\ verdict = "unsafe") => reports = <<ValueOf(node)>>

\* C2: a value of a listed safe form reaching a sink gets no report, and a
\* call of a locally declared function named open gets no report
C2_SafeValueNoDiagnostic ==
    /\ (VisitedSink /\ ListedSafe(ValueOf(node))) => reports = <<>>
    /\ ( /\ node.type = "CallExpression"
         /\ node.callee.type = "Identifier"
         /\ node.callee.name = "open"
         /\ node.callee.scope \in {"innermost", "outer"} ) => reports = <<>>

-----------------------------------------------------------------------------
(* Claims about the classifier, checked under ClassifierSpec               *)

Classified == verdict # "none"
InterpolatedTemplate ==
    node.type = "TemplateLiteral" /\ Len(node.expressions) > 0

\* C10: a template literal with at least one interpolation is safe exactly
\* when its first segment, the source text before the first ${, holds a
\* character other than slash and backslash (so is non-empty); an empty
\* first segment is unsafe whatever the later segments and whatever the
\* static type
C10_TemplatePrefixRule ==
    (Classified /\ InterpolatedTemplate) =>
        /\ verdict = "safe" <=>
              \E i \in 1..Len(node.quasis[1].raw) :
                  Ch(node.quasis[1].raw, i) \notin {"/", "\\"}
        /\ node.quasis[1].raw = "" => verdict = "unsafe"

C10_Witness ==
    /\ InterpolatedTemplate
    /\ node.quasis[1].raw = ""
    /\ node.quasis[2].raw = "/x"
    /\ node.ty = "\"/dashboard\""
    /\ checker = "TypeChecker"
    /\ verdict = "unsafe"

Concatenation == node.type = "BinaryExpression" /\ node.operator = "+"

\* some character of s is neither a slash nor a backslash
HasOtherCharacter(s) == \E i \in 1..Len(s) : Ch(s, i) \notin {"/", "\\"}

\* C11: a + chain is safe exactly when its leftmost operand is a non-empty
\* string literal that is not all slashes and backslashes, or a
\* single-segment template literal under the same constraint; an empty
\* string literal, like every other leftmost form, makes the chain unsafe
C11_LeftmostRule ==
    (Classified /\ Concatenation) =>
        (verdict = "safe" <=>
            \/ /\ Leftmost(node).type = "Literal"
               /\ Leftmost(node).valueType = "string"
               /\ HasOtherCharacter(Leftmost(node).value)
            \/ /\ Leftmost(node).type = "TemplateLiteral"
               /\ Len(Leftmost(node).quasis) = 1
               /\ HasOtherCharacter(Leftmost(node).quasis[1].raw))

\* the type oracle answers for the classified node
TypeKnown == checker # "null" /\ node.ty # "throws"
StringLiteralTyped == TypeTable(node.ty).kind = "stringLiteral"
TrustedUrlBranded == TypeTable(node.ty).brand = "\"TrustedUrl\""
OtherwiseBranded ==
    TypeTable(node.ty).brand \notin {"", "\"TrustedUrl\""}
EnsureTrustedUrlCallNode ==
    /\ node.type = "CallExpression"
    /\ node.callee.type = "Identifier"
    /\ node.callee.name = "ensureTrustedUrl"

\* C12 as stated: with a type oracle, every value expression of a
\* string-literal type or with __brand: "TrustedUrl" is safe, and a __brand
\* of another type does not make a value safe
C12_TypedValueSafe ==
    (Classified /\ TypeKnown) =>
        /\ (StringLiteralTyped \/ TrustedUrlBranded) => verdict = "safe"
        /\ (OtherwiseBranded /\ ~EnsureTrustedUrlCallNode) => verdict = "unsafe"

\* C12 amended: the same for every value expression that is neither a template
\* literal with interpolations nor a + chain; those two forms are decided by
\* their leading text before the type is looked at
C12_TypedValueSafe_UnlessStructural ==
    (Classified /\ TypeKnown /\ ~InterpolatedTemplate /\ ~Concatenation) =>
        /\ (StringLiteralTyped \/ TrustedUrlBranded) => verdict = "safe"
        /\ (OtherwiseBranded /\ ~EnsureTrustedUrlCallNode) => verdict = "unsafe"

C12_Witness ==
    /\ TypeKnown
    /\ node.type = "Identifier"
    /\ TrustedUrlBranded
    /\ verdict = "safe"

\* C13: a call whose callee is the bare identifier ensureTrustedUrl is safe
\* for any arguments, with or without type information; a call through any
\* other callee is safe only if its static type makes it so
C13_ValidatorNameRule ==
    (Classified /\ node.type = "CallExpression") =>
        /\ EnsureTrustedUrlCallNode => verdict = "safe"
        /\ ( /\ ~EnsureTrustedUrlCallNode
             /\ ~(TypeKnown /\ (StringLiteralTyped \/ TrustedUrlBranded)) )
              => verdict = "unsafe"

C13_Witness ==
    /\ checker = "null"
    /\ EnsureTrustedUrlCallNode
    /\ node.arguments = <<>>
    /\ verdict = "safe"

-----------------------------------------------------------------------------
(* Further claims about the resolver and the sink visitor, under Spec      *)

\* the assignment target or the callee of the visited node
TargetOf(n) ==
    IF n.type = "AssignmentExpression" THEN n.left
    ELSE IF n.type = "CallExpression" THEN n.callee
    ELSE NoNode

\* the expression a member chain starts from
RECURSIVE BaseOf(_)
BaseOf(n) ==
    IF n.type = "ChainExpression" THEN BaseOf(n.expression)
    ELSE IF n.type = "MemberExpression" THEN BaseOf(n.object)
    ELSE n

\* an identifier that some enclosing scope declares
DeclaredLocally(n) ==
    n.type = "Identifier" /\ n.scope \in {"innermost", "outer"}

\* C14: an assignment or call through a binding named location, window,
\* navigation or open that an enclosing scope declares, the innermost or an
\* outer one, is not recognised as a sink
C14_ShadowedNameIsNoSink ==
    ( /\ VisitedSink
      /\ DeclaredLocally(BaseOf(TargetOf(node)))
      /\ BaseOf(TargetOf(node)).name \in
            {"location", "window", "navigation", "open"} )
       => verdict = "none"

\* window, window.window, window.window.window, ... on the global window
RECURSIVE IsWindowChain(_)
IsWindowChain(n) ==
    IF n.type = "Identifier"
    THEN n.name = "window" /\ ~DeclaredLocally(n)
    ELSE IF n.type = "MemberExpression"
         THEN /\ ~n.computed
              /\ n.property.name = "window"
              /\ IsWindowChain(n.object)
         ELSE FALSE

IsWindowChainLocation(n) ==
    /\ n.type = "MemberExpression"
    /\ ~n.computed
    /\ n.property.name = "location"
    /\ IsWindowChain(n.object)

\* C15: the header window.window...window.location of a with statement
\* resolves to location for any number of window segments, with or without
\* type information
C15_WindowChainResolves ==
    (node.type = "WithStatement" /\ IsWindowChainLocation(node.object))
       => getCurrentWithObject = "location"

\* the unshadowed global document or globalThis
DocumentOrGlobalThis(n) ==
    /\ n.type = "Identifier"
    /\ n.name \in {"document", "globalThis"}
    /\ ~DeclaredLocally(n)

\* C16: the globals document and globalThis resolve to window, a variable
\* initialised from one of them is tracked as window, and globalThis.open(v)
\* is recognised as a sink
C16_DocumentAndGlobalThisAreWindow ==
    /\ (node.type = "WithStatement" /\ DocumentOrGlobalThis(node.object))
          => getCurrentWithObject = "window"
    /\ ( /\ node.type = "VariableDeclarator"
         /\ node.id.type = "Identifier"
         /\ DocumentOrGlobalThis(node.init) )
          => /\ node.id.name \in DOMAIN trackedVariables
             /\ trackedVariables[node.id.name].isWindow
    /\ ( /\ node.type = "CallExpression"
         /\ node.callee.type = "MemberExpression"
         /\ ~node.callee.computed
         /\ node.callee.property.name = "open"
         /\ DocumentOrGlobalThis(node.callee.object)
         /\ node.callee.object.name = "globalThis"
         /\ node.arguments # <<>> )
          => verdict # "none"

\* C17: over any traversal the depth of withStack is the number of enclosing
\* with statements and is 0 outside every with; on entering a with its
\* resolved header kind is pushed on top of the unchanged outer entries; on
\* leaving it exactly that entry is popped, so the outer kind is current again
C17_WithStackNesting ==
    /\ [](Len(withStack) = enclosingWiths)
    /\ [](node.type = "WithStatement"
             => getCurrentWithObject = isRedirectObject(node.object))
    /\ [][enclosingWiths' > enclosingWiths
             => /\ Len(withStack') = Len(withStack) + 1
                /\ SubSeq(withStack', 1, Len(withStack)) = withStack]_vars
    /\ [][enclosingWiths' < enclosingWiths
             => /\ Len(withStack') = Len(withStack) - 1
                /\ withStack' = SubSeq(withStack, 1, Len(withStack'))]_vars

C17_Witness ==
    /\ enclosingWiths = 2
    /\ withStack = <<"location", "window">>
    /\ node.type = "WithStatement"

\* a bare href = v, or a bare replace(v) / assign(v)
BareSinkForm ==
    \/ /\ node.type = "AssignmentExpression"
       /\ node.left.type = "Identifier"
       /\ node.left.name = "href"
    \/ /\ node.type = "CallExpression"
       /\ node.callee.type = "Identifier"
       /\ node.callee.name \in {"replace", "assign"}
       /\ node.arguments # <<>>

\* C18: a bare href = v, replace(v) or assign(v) is a sink exactly when the
\* innermost enclosing with resolved to location; it is none without an
\* enclosing with and inside a with resolved to window, navigation or none
C18_BareSinkOnlyInLocationWith ==
    BareSinkForm =>
        (verdict # "none" <=>
            (enclosingWiths > 0 /\ withStack[Len(withStack)] = "location"))

C18_Witness ==
    /\ BareSinkForm
    /\ node.type = "AssignmentExpression"
    /\ withStack = <<"window", "location">>
    /\ reports = <<node.right>>

\* the kind the alias map holds for a name, "null" when it holds none
KindOf(tracked, name) ==
    IF name \notin DOMAIN tracked THEN "null"
    ELSE IF tracked[name].isLocation THEN "location"
    ELSE IF tracked[name].isNavigation THEN "navigation"
    ELSE IF tracked[name].isWindow THEN "window"
    ELSE "null"

\* the kind the type oracle names for a node, "null" when it names none
KindByType(n) ==
    LET type == getType(n) IN
    IF type = "null" THEN "null"
    ELSE IF hasTypeName(type, "Location") THEN "location"
    ELSE IF \/ hasTypeName(type, "Window")
            \/ hasTypeName(type, "typeof globalThis")
            \/ hasTypeName(type, "Document") THEN "window"
    ELSE "null"

\* the callback that runs in this step is VariableDeclarator, on a
\* declarator name = expr whose initialiser resolves to a sink kind
DeclaresAlias ==
    /\ node = NoNode
    /\ node'.type = "VariableDeclarator"
    /\ node'.id.type = "Identifier"
    /\ node'.init # NoNode
    /\ isRedirectObject(node'.init) # "null"

\* the alias map is written by declarators with a resolving initialiser
\* only: no other declarator and no assignment adds, changes or removes
AliasMapWrittenByDeclaratorsOnly ==
    /\ [][DeclaresAlias =>
             /\ KindOf(trackedVariables', node'.id.name)
                  = isRedirectObject(node'.init)
             /\ \A name \in DOMAIN trackedVariables \ {node'.id.name} :
                   KindOf(trackedVariables', name)
                     = KindOf(trackedVariables, name)]_vars
    /\ [][~DeclaresAlias => trackedVariables' = trackedVariables]_vars

\* a use visited before any declarator of its name is no alias
UseBeforeDeclaratorIsNoAlias ==
    [](\A u \in IdentifierObjects :
          /\ u.name \notin DOMAIN trackedVariables
          /\ u.scope = "innermost"
          /\ KindByType(u) = "null"
          => isRedirectObject(u) = "null")

OtherLocationProperty ==
    /\ node.type = "AssignmentExpression"
    /\ TargetOf(node).type = "MemberExpression"
    /\ ~TargetOf(node).computed
    /\ TargetOf(node).property.type = "Identifier"
    /\ TargetOf(node).property.name
         \in {"hash", "search", "replace", "assign", "navigate"}
    /\ isRedirectObject(TargetOf(node).object) = "location"

\* C20: a non-computed base.P = v whose base resolves to location is a sink
\* only for P = href; an assignment to hash, search, replace, assign or
\* navigate of a location object produces no diagnostic whatever v is
C20_OnlyHrefOfLocation ==
    OtherLocationProperty => reports = <<>>

\* a computed assignment base[key] = v
ComputedWrite ==
    /\ node.type = "AssignmentExpression"
    /\ node.left.type = "MemberExpression"
    /\ node.left.computed

\* C21: a computed assignment base[key] = v whose base resolves to location
\* is a sink whatever the key, with exactly one report for an unsafe v and
\* none for a safe one; a computed write to a base that resolves to window,
\* navigation or none is no sink by the computed-write rule (a key spelled
\* as the identifier location falls under the rule for member.location)
C21_ComputedWriteToLocation ==
    ComputedWrite =>
        IF isRedirectObject(node.left.object) = "location"
        THEN /\ verdict # "none"
             /\ reports = IF isValueSafe(node.right) THEN <<>>
                          ELSE <<node.right>>
        ELSE ~( /\ node.left.property.type = "Identifier"
                /\ node.left.property.name = "location" )
               => verdict = "none"

\* some object along the member chain, or the target itself, is wrapped in a
\* ChainExpression
RECURSIVE HasOptionalChain(_)
HasOptionalChain(n) ==
    IF n.type = "ChainExpression" THEN TRUE
    ELSE IF n.type = "MemberExpression" THEN HasOptionalChain(n.object)
    ELSE FALSE

\* the same member chain written without ?.
RECURSIVE WithoutOptionalChain(_)
WithoutOptionalChain(n) ==
    IF n.type = "ChainExpression" THEN WithoutOptionalChain(n.expression)
    ELSE IF n.type = "MemberExpression"
         THEN Member(WithoutOptionalChain(n.object), n.property, n.computed,
                     n.ty)
         ELSE n

\* what the visitor does with the visited statement written without ?.
OutcomeWithoutOptionalChain ==
    IF node.type = "AssignmentExpression"
    THEN AssignmentExpressionOutcome(
             Assignment(WithoutOptionalChain(node.left), node.right))
    ELSE CallExpressionOutcome(
             Call(WithoutOptionalChain(node.callee), node.arguments, node.ty))

\* C22: an assignment or call whose target, or an object along its member
\* chain, is wrapped in an optional chain gets the reports of the same
\* statement written without ?.
C22_OptionalChainTransparent ==
    ( /\ node.type \in {"AssignmentExpression", "CallExpression"}
      /\ HasOptionalChain(TargetOf(node)) )
       => reports = OutcomeWithoutOptionalChain.reports

\* C23: no failure of a type-oracle operation leaves a visitor callback: a
\* failing query counts as no type information and the pass goes on
C23_OracleFailureContained ==
    verdict # "threw"

\* C24: a pass starts from an empty alias map and an empty with stack, and
\* two passes over the same file that have made the same number of callbacks
\* have made the same reports, however the host interleaved them with each
\* other and with the pass over another file
C24_PassesIsolated ==
    /\ \A p \in DOMAIN passes :
          (passes[p].closure # 0 /\ passes[p].position = 0)
             => closures[passes[p].closure] = NewClosure
    /\ \A p, q \in DOMAIN passes :
          ( /\ passes[p].file = passes[q].file
            /\ passes[p].position = passes[q].position )
             => passes[p].diagnostics = passes[q].diagnostics

C24_Witness ==
    /\ passes # <<>>
    /\ passes[1].file = <<usesLoc, declaresLoc>>
    /\ passes[1].position = 1
    /\ passes[2].position = 1
    /\ passes[3].position = 2
    /\ closures[passes[3].closure].withStack # <<>>
    /\ running = 2
    /\ node = usesLoc

\* the two-operand chain with the same leftmost operand as the classified one
SameLeftmostChain == Binary("+", Leftmost(node), someVariable, "string")

\* C25: a + chain is classified as the two-operand chain with the same
\* leftmost operand is, whatever its intermediate and right-hand operands
\* (identifier, call, literal, nested concatenation) and whatever its
\* static type: chains with the same leftmost operand get the same verdict
C25_OnlyLeftmostOperandCounts ==
    (Classified /\ Concatenation) =>
        (verdict = "safe" <=> isValueSafe(SameLeftmostChain))

C25_Witness ==
    /\ Classified
    /\ Concatenation
    /\ checker = "TypeChecker"
    /\ node.ty = "any"
    /\ node.left.type = "BinaryExpression"
    /\ node.left.right.type = "BinaryExpression"
    /\ node.right.type = "CallExpression"
    /\ Leftmost(node).type = "Literal"
    /\ verdict = "safe"

=============================================================================
